---- MODULE Spec2Model ----
(***************************************************************************)
(* Model of DataController.py: the two connection-lifecycle managers,      *)
(* HASSController (websocket state-sync client) and MQTTController         *)
(* (publish/subscribe client), with their supervising tasks, the frame     *)
(* dispatch of HASSController.on_message and the per-session assembly and  *)
(* teardown of MQTTController.listen.                                      *)
(***************************************************************************)
EXTENDS Integers, Sequences, FiniteSets, TLC

VARIABLES
    hass_data_sources,  \* HASSController.data_sources (class-level list)
    hPc,                \* position of the HASSController.client_handler task
    hEnd,               \* what ended the most recent websocket session
    hIn,                \* classes of the frames received in the current session
    hMsg,               \* the frame handled last in the session (<<>> or <<frame>>)
    hOut,               \* frames sent with ws.send in the current session
    hCalls,             \* data-source invocations made while handling hMsg
    hCaller,            \* what the caller of HASSController.connect() has seen
    hActive,            \* websocket connections being attempted or open
    hRetried,           \* whether client_handler has been started again after a delay
    hFrames,            \* frames taken from the connection in the current session, in order
    hRun,               \* on_message calls in progress, each with the effects it has left
    hLog,               \* sends and data-source invocations of the session, in order
    mqtt_data_sources,  \* MQTTController.data_sources (class-level list)
    MQTTTopic_handlers, \* MQTTTopic.handlers (class-level list)
    topics,             \* MQTTController.topics (class-level dict), keys in insertion order
    tasks,              \* MQTTController.tasks (class-level set)
    taskState,          \* state of every listener task created so far
    mPc,                \* position of the MQTTController.client_handler task
    mSession,           \* number of listen() calls made so far
    mStreams,           \* filtered message streams opened in the current session
    mSubs,              \* arguments of the client.subscribe calls of the current session
    mErr,               \* the error that ended the body of the current listen() call
    mEndedAt,           \* the step of listen() at which its body ended
    mTeardown,          \* outcome of the exit callback of the current listen() call
    mRaised,            \* what the current listen() call raised to client_handler
    mCaller,            \* what the caller of MQTTController.connect() has seen
    mActive,            \* broker connections being attempted or open
    mTrace,             \* the steps of the current listen() call, in order
    oPc,                \* position of client_handler of a second MQTTController object
    oSources,           \* positions in data_sources appended through the second object
    oTasks              \* ids of the listener tasks created by the second object's listen()

hassVars == <<hass_data_sources, hPc, hEnd, hIn, hMsg, hOut, hCalls, hCaller, hActive,
             hRetried, hFrames, hRun, hLog>>

mqttVars == <<mqtt_data_sources, MQTTTopic_handlers, topics, tasks, taskState, mPc,
              mSession, mStreams, mSubs, mErr, mEndedAt, mTeardown, mRaised,
              mCaller, mActive, mTrace>>

seqVars == <<hFrames, hRun, hLog>>

otherVars == <<oPc, oSources, oTasks>>

vars == <<hassVars, mqttVars, otherVars>>

----------------------------------------------------------------------------
(* Bounds *)

MaxFrames == 3      \* frames received per websocket session
MaxRecords == 2     \* records in the result of one bulk frame

----------------------------------------------------------------------------
(* Values *)

event_rq_id == 1
bulk_rq_id == 2
OtherId == event_rq_id + bulk_rq_id \* an id that is neither reserved id

auth_token == "X"                  \* the configured access token

Sources == {"ds1", "ds2"}          \* data sources that may be registered
Records == {"r1", "r2"}            \* entity records of a bulk result

RECURSIVE SeqsUpTo(_, _)
SeqsUpTo(S, n) ==
    IF n = 0 THEN {<<>>}
    ELSE LET shorter == SeqsUpTo(S, n - 1)
         IN shorter \cup {Append(s, x) : s \in {t \in shorter : Len(t) = n - 1}, x \in S}

\* A decoded JSON object is a record whose DOMAIN is the set of its keys.
\* The value of "event" is itself an object, with or without the key "data";
\* the data "{}" is the empty dict.  The value of "result" is None or a list.
NoneResult == [isNone |-> TRUE, items |-> <<>>]
ListResult(items) == [isNone |-> FALSE, items |-> items]

AuthTypes == {"auth_required", "auth_invalid", "auth_ok"}
Ids == {event_rq_id, bulk_rq_id, OtherId}
Events == {[other |-> "x"], [data |-> "{}"], [data |-> "d1"]}
Results == {NoneResult} \cup {ListResult(s) : s \in SeqsUpTo(Records, MaxRecords)}

Garbage == [raw |-> "not json"]    \* text that json.loads cannot decode

Frames ==
    {Garbage}
    \cup {[type |-> t] : t \in AuthTypes}
    \cup {[type |-> t, id |-> i] : t \in AuthTypes, i \in Ids}
    \cup {[type |-> "event"], [type |-> "event", id |-> event_rq_id]}
    \cup {[type |-> "event", event |-> e] : e \in Events}
    \cup {[type |-> "event", id |-> i, event |-> e] : i \in Ids, e \in Events}
    \cup {[id |-> i, event |-> e] : i \in Ids, e \in Events}
    \cup {[type |-> "result", id |-> bulk_rq_id], [id |-> bulk_rq_id]}
    \cup {[type |-> "result", result |-> r] : r \in Results}
    \cup {[type |-> "result", id |-> i, result |-> r] : i \in Ids, r \in Results}
    \cup {[id |-> i, result |-> r] : i \in Ids, r \in Results}

----------------------------------------------------------------------------
(* HASSController.on_message *)

Has(message, key) == key \in DOMAIN message

\* safekey(d, 'event/data'): the value at the key path, None when it is missing
safekey(message) ==
    IF Has(message, "event") /\ Has(message.event, "data")
    THEN message.event.data
    ELSE "None"

Truthy(val) == val \notin {"None", "{}"}

AuthFrame == [type |-> "auth", access_token |-> auth_token]
SubscribeEventsFrame ==
    [id |-> event_rq_id, type |-> "subscribe_events", event_type |-> "state_changed"]
GetStatesFrame == [id |-> bulk_rq_id, type |-> "get_states"]

Handled(out, calls, exc) == [out |-> out, calls |-> calls, exc |-> exc]

Call(ds, method, arg) == [ds |-> ds, method |-> method, arg |-> arg]

OnAuthRequired == Handled(<<AuthFrame>>, <<>>, "none")

\* Variant: auth_invalid raised as an error out of on_message
OnAuthInvalid_Raises == Handled(<<>>, <<>>, "AuthenticationError")

OnAuthInvalid == Handled(<<>>, <<>>, "none")

\* Variant: the two requests sent in the other order
OnAuthOk_Swapped == Handled(<<GetStatesFrame, SubscribeEventsFrame>>, <<>>, "none")

OnAuthOk == Handled(<<SubscribeEventsFrame, GetStatesFrame>>, <<>>, "none")

\* for ds in self.data_sources: ds.parse_incremental_update(data)
IncrementalCalls(data, sources) ==
    [k \in 1..Len(sources) |-> Call(sources[k], "parse_incremental_update", data)]

\* for status in bulk_update: for ds in self.data_sources: ds.parse_bulk_update(status)
BulkCalls(items, sources) ==
    LET n == Len(sources)
    IN [k \in 1..(Len(items) * n) |->
            Call(sources[((k - 1) % n) + 1], "parse_bulk_update",
                 items[((k - 1) \div n) + 1])]

OnEventFrame(message, sources) ==
    IF ~Truthy(safekey(message))
    THEN Handled(<<>>, <<>>, "none")
    ELSE Handled(<<>>, IncrementalCalls(message.event.data, sources), "none")

OnBulkFrame(message, sources) ==
    IF ~Has(message, "result") \/ message.result.isNone
    THEN Handled(<<>>, <<>>, "none")
    ELSE Handled(<<>>, BulkCalls(message.result.items, sources), "none")

on_message(message, sources) ==
    IF Has(message, "raw")
    THEN Handled(<<>>, <<>>, "JSONDecodeError")
    ELSE IF Has(message, "type") /\ message.type = "auth_required" THEN OnAuthRequired
    ELSE IF Has(message, "type") /\ message.type = "auth_invalid" THEN OnAuthInvalid
    ELSE IF Has(message, "type") /\ message.type = "auth_ok" THEN OnAuthOk
    ELSE IF ~Has(message, "type") THEN Handled(<<>>, <<>>, "none")
    ELSE IF ~Has(message, "id") THEN Handled(<<>>, <<>>, "KeyError")
    ELSE IF message.id = event_rq_id THEN OnEventFrame(message, sources)
    ELSE IF message.id = bulk_rq_id THEN OnBulkFrame(message, sources)
    ELSE Handled(<<>>, <<>>, "none")

\* How a frame counts in the session's log of received frames
Class(message) ==
    IF Has(message, "type") /\ message.type \in AuthTypes THEN message.type ELSE "other"

----------------------------------------------------------------------------
(* HASSController: registration, connect and client_handler *)

HassInit ==
    /\ hass_data_sources = <<>>
    /\ hPc = "idle"
    /\ hEnd = "none"
    /\ hIn = <<>>
    /\ hMsg = <<>>
    /\ hOut = <<>>
    /\ hCalls = <<>>
    /\ hCaller = "none"
    /\ hActive = 0
    /\ hRetried = FALSE
    /\ hFrames = <<>>
    /\ hRun = <<>>
    /\ hLog = <<>>

\* The data-source list is filled by the application before connect().
AddHassDataSource(ds) ==
    /\ hPc = "idle"
    /\ \A k \in 1..Len(hass_data_sources) : hass_data_sources[k] # ds
    /\ hass_data_sources' = Append(hass_data_sources, ds)
    /\ UNCHANGED <<hPc, hEnd, hIn, hMsg, hOut, hCalls, hCaller, hActive, hRetried>>
    /\ UNCHANGED seqVars
    /\ UNCHANGED <<mqttVars, otherVars>>

\* What the caller of connect() sees when the supervising task ends with an
\* error: the error, if the caller is waiting for the task; nothing otherwise.
CallerAfter(caller, pc) ==
    IF caller = "waiting" /\ pc = "dead" THEN "raised" ELSE caller

\* Variant: connect() awaits the supervising task instead of scheduling it
HassConnectAwaits_Await == TRUE

\* connect() schedules client_handler with asyncio.create_task and returns;
\* it does not await the task.
HassConnectAwaits == FALSE

\* connect(): asyncio.create_task(self.client_handler())
HassConnect ==
    /\ hPc = "idle"
    /\ hPc' = "connecting"
    /\ hCaller' = IF HassConnectAwaits THEN "waiting" ELSE "returned"
    /\ hActive' = hActive + 1
    /\ UNCHANGED <<hass_data_sources, hEnd, hIn, hMsg, hOut, hCalls, hRetried>>
    /\ UNCHANGED seqVars
    /\ UNCHANGED <<mqttVars, otherVars>>

\* What websockets.connect(self.url) can do: open the connection, or raise a
\* WebSocketException (bad handshake, bad URI), socket.gaierror (DNS) or
\* another OSError such as ConnectionRefusedError.
ConnectOutcomes == {"ok", "WebSocketException", "gaierror", "ConnectionRefusedError"}

\* except (websockets.exceptions.WebSocketException, gaierror)
CaughtOnConnect(outcome) == outcome \in {"WebSocketException", "gaierror"}

HassConnectResult(outcome) ==
    /\ hPc = "connecting"
    /\ hPc' = IF outcome = "ok" THEN "open"
              ELSE IF CaughtOnConnect(outcome) THEN "sleepConnectFailed"
              ELSE "dead"
    /\ hEnd' = IF outcome = "ok" THEN "none" ELSE outcome
    /\ hCaller' = CallerAfter(hCaller, hPc')
    /\ hActive' = IF outcome = "ok" THEN hActive ELSE hActive - 1
    /\ UNCHANGED <<hass_data_sources, hIn, hMsg, hOut, hCalls, hRetried>>
    /\ UNCHANGED seqVars
    /\ UNCHANGED <<mqttVars, otherVars>>

\* message = await websocket.recv(); await self.on_message(websocket, message)
\* sendsOk is the number of ws.send calls that succeed before the connection
\* closes; a failing send raises ConnectionClosed inside the inner try.
HassReceive(message) ==
    /\ hPc = "open"
    /\ Len(hIn) < MaxFrames
    /\ LET r == on_message(message, hass_data_sources)
       IN \E sendsOk \in 0..Len(r.out) :
          /\ hIn' = Append(hIn, Class(message))
          /\ hMsg' = <<message>>
          /\ hOut' = hOut \o SubSeq(r.out, 1, sendsOk)
          /\ hCalls' = r.calls
          /\ IF sendsOk < Len(r.out)
             THEN hPc' = "sleepClosed" /\ hEnd' = "ConnectionClosed"
             ELSE IF r.exc # "none"
             THEN hPc' = "dead" /\ hEnd' = r.exc
             ELSE hPc' = "open" /\ hEnd' = "none"
    /\ hCaller' = CallerAfter(hCaller, hPc')
    /\ hActive' = IF hPc' = "open" THEN hActive ELSE hActive - 1
    /\ UNCHANGED <<hass_data_sources, hRetried>>
    /\ UNCHANGED seqVars
    /\ UNCHANGED <<mqttVars, otherVars>>

\* Variant: on a lost connection every task of the event loop is cancelled
HassConnectionClosed_CancelsAllTasks ==
    /\ hPc = "open"
    /\ hPc' = "sleepClosed"
    /\ hEnd' = "ConnectionClosed"
    /\ hActive' = hActive - 1
    /\ taskState' = [id \in DOMAIN taskState |->
                        IF taskState[id] = "running" THEN "cancelled" ELSE taskState[id]]
    /\ UNCHANGED <<hass_data_sources, hIn, hMsg, hOut, hCalls, hCaller, hRetried>>
    /\ UNCHANGED seqVars
    /\ UNCHANGED <<mqtt_data_sources, MQTTTopic_handlers, topics, tasks, mPc, mSession,
                   mStreams, mSubs, mErr, mEndedAt, mTeardown, mRaised, mCaller,
                   mActive, mTrace>>
    /\ UNCHANGED otherVars

\* websocket.recv() raises ConnectionClosed
HassConnectionClosed ==
    /\ hPc = "open"
    /\ hPc' = "sleepClosed"
    /\ hEnd' = "ConnectionClosed"
    /\ hActive' = hActive - 1
    /\ UNCHANGED <<hass_data_sources, hIn, hMsg, hOut, hCalls, hCaller, hRetried>>
    /\ UNCHANGED seqVars
    /\ UNCHANGED <<mqttVars, otherVars>>

\* Variant: two client_handler tasks are created after the delay
NewHassSession_SpawnsTwice ==
    /\ hPc' = "connecting"
    /\ hEnd' = "none"
    /\ hIn' = <<>>
    /\ hMsg' = <<>>
    /\ hOut' = <<>>
    /\ hCalls' = <<>>
    /\ hCaller' = IF hCaller = "waiting" THEN "returned" ELSE hCaller
    /\ hActive' = hActive + 2
    /\ hRetried' = TRUE
    /\ hFrames' = <<>>
    /\ hRun' = <<>>
    /\ hLog' = <<>>
    /\ UNCHANGED hass_data_sources
    /\ UNCHANGED <<mqttVars, otherVars>>

\* asyncio.create_task(self.client_handler()): one new task starts with a new
\* connection attempt, and the task that created it returns.
NewHassSession ==
    /\ hPc' = "connecting"
    /\ hEnd' = "none"
    /\ hIn' = <<>>
    /\ hMsg' = <<>>
    /\ hOut' = <<>>
    /\ hCalls' = <<>>
    /\ hCaller' = IF hCaller = "waiting" THEN "returned" ELSE hCaller
    /\ hActive' = hActive + 1
    /\ hRetried' = TRUE
    /\ hFrames' = <<>>
    /\ hRun' = <<>>
    /\ hLog' = <<>>
    /\ UNCHANGED hass_data_sources
    /\ UNCHANGED <<mqttVars, otherVars>>

\* after ConnectionClosed: sleep(10), create_task(self.client_handler()), return
HassReconnectAfterClose ==
    /\ hPc = "sleepClosed"
    /\ NewHassSession

\* after a caught connect failure: sleep(10), create_task(self.client_handler())
HassReconnectAfterConnectFailure ==
    /\ hPc = "sleepConnectFailed"
    /\ NewHassSession

\* Handling a frame, as HassReceive, when the k-th data-source invocation
\* raises: the error leaves the for loops and on_message; it is no
\* ConnectionClosed, WebSocketException or gaierror, so no except clause of
\* client_handler catches it and the task ends.
HassCallbackFault(message, k) ==
    /\ hPc = "open"
    /\ Len(hIn) < MaxFrames
    /\ LET r == on_message(message, hass_data_sources)
       IN /\ k \in 1..Len(r.calls)
          /\ hCalls' = SubSeq(r.calls, 1, k)
    /\ hIn' = Append(hIn, Class(message))
    /\ hMsg' = <<message>>
    /\ hPc' = "dead"
    /\ hEnd' = "DataSourceError"
    /\ hCaller' = CallerAfter(hCaller, hPc')
    /\ hActive' = hActive - 1
    /\ UNCHANGED <<hass_data_sources, hOut, hRetried>>
    /\ UNCHANGED seqVars
    /\ UNCHANGED <<mqttVars, otherVars>>

\* The sends and data-source invocations of one on_message call, in the
\* order the code makes them
Effects(r) ==
    [k \in 1..Len(r.out) |-> [kind |-> "send", what |-> r.out[k]]] \o
    [k \in 1..Len(r.calls) |-> [kind |-> "call", what |-> r.calls[k]]]

\* What an on_message call does before it next yields to the event loop: one
\* awaited ws.send, or all of its data-source invocations, which are plain
\* calls with no await between them
Chunk(left) == IF Head(left).kind = "send" THEN <<Head(left)>> ELSE left

WhatOf(effects, kind) ==
    LET sel == SelectSeq(effects, LAMBDA e : e.kind = kind)
    IN [k \in 1..Len(sel) |-> sel[k].what]

\* Variant: on_message is started as a task of its own and not awaited
AwaitsOnMessage_Spawned == FALSE

\* await self.on_message(websocket, message): the receive loop takes the next
\* frame only when on_message has returned
AwaitsOnMessage == TRUE

\* message = await websocket.recv(), and on_message up to its first await;
\* a call that sends nothing and invokes nothing returns or raises at once
HassTake(message) ==
    /\ hPc = "open"
    /\ Len(hFrames) < MaxFrames
    /\ AwaitsOnMessage => hRun = <<>>
    /\ LET r == on_message(message, hass_data_sources)
       IN /\ hFrames' = Append(hFrames, message)
          /\ hIn' = Append(hIn, Class(message))
          /\ hMsg' = <<message>>
          /\ hCalls' = <<>>
          /\ IF Effects(r) # <<>>
             THEN /\ hRun' = Append(hRun, Effects(r))
                  /\ UNCHANGED <<hPc, hEnd>>
             ELSE /\ hRun' = hRun
                  /\ hPc' = IF r.exc = "none" THEN "open" ELSE "dead"
                  /\ hEnd' = r.exc
    /\ hCaller' = CallerAfter(hCaller, hPc')
    /\ hActive' = IF hPc' = "open" THEN hActive ELSE hActive - 1
    /\ UNCHANGED <<hass_data_sources, hOut, hLog, hRetried>>
    /\ UNCHANGED <<mqttVars, otherVars>>

\* The on_message call number i runs to its next await or to its end
HassStep(i) ==
    /\ hPc = "open"
    /\ i \in 1..Len(hRun)
    /\ LET done == Chunk(hRun[i])
           left == SubSeq(hRun[i], Len(done) + 1, Len(hRun[i]))
       IN /\ hLog' = hLog \o done
          /\ hOut' = hOut \o WhatOf(done, "send")
          /\ hCalls' = hCalls \o WhatOf(done, "call")
          /\ hRun' = IF left = <<>>
                     THEN SubSeq(hRun, 1, i - 1) \o SubSeq(hRun, i + 1, Len(hRun))
                     ELSE [hRun EXCEPT ![i] = left]
    /\ UNCHANGED <<hass_data_sources, hPc, hEnd, hIn, hMsg, hFrames, hCaller, hActive,
                   hRetried>>
    /\ UNCHANGED <<mqttVars, otherVars>>

\* The awaited ws.send of on_message call number i raises ConnectionClosed
HassSendFails(i) ==
    /\ hPc = "open"
    /\ i \in 1..Len(hRun)
    /\ Head(hRun[i]).kind = "send"
    /\ hRun' = SubSeq(hRun, 1, i - 1) \o SubSeq(hRun, i + 1, Len(hRun))
    /\ hPc' = "sleepClosed"
    /\ hEnd' = "ConnectionClosed"
    /\ hActive' = hActive - 1
    /\ UNCHANGED <<hass_data_sources, hIn, hMsg, hOut, hCalls, hFrames, hLog, hCaller,
                   hRetried>>
    /\ UNCHANGED <<mqttVars, otherVars>>

HassNext ==
    \/ \E ds \in Sources : AddHassDataSource(ds)
    \/ HassConnect
    \/ \E outcome \in ConnectOutcomes : HassConnectResult(outcome)
    \/ \E message \in Frames : HassReceive(message)
    \/ HassConnectionClosed
    \/ HassReconnectAfterClose
    \/ HassReconnectAfterConnectFailure


----------------------------------------------------------------------------
(* MQTTTopic and MQTTController *)

MaxMqttSources == 2   \* data sources registered with the MQTT controller
MaxDecls == 1         \* MQTTTopic objects one data source declares
MaxSessions == 2      \* listen() calls of one run

Topics == {"T", "U"}

\* The handler that data source number s passes to its d-th MQTTTopic
Handler(s, d) == <<"handler", s, d>>

\* The shared list MQTTTopic.handlers appended to itself is an element that
\* is no handler; calling it raises TypeError.
TheList == <<"MQTTTopic.handlers">>

IsCallable(hl) == hl # TheList

\* MQTTTopic.__init__(topic, handler): self.topic = topic, and the handler is
\* appended to the list that the class (every instance) holds.
NewMQTTTopic(topic) == [topic |-> topic]

MQTTTopicInit(handlers, s, d) == Append(handlers, Handler(s, d))

RECURSIVE InitAll(_, _, _)
InitAll(handlers, s, d) ==
    IF d = 0 THEN handlers ELSE MQTTTopicInit(InitAll(handlers, s, d - 1), s, d)

MqttInit ==
    /\ mqtt_data_sources = <<>>
    /\ MQTTTopic_handlers = <<>>
    /\ topics = <<>>
    /\ tasks = {}
    /\ taskState = <<>>
    /\ mPc = "idle"
    /\ mSession = 0
    /\ mStreams = <<>>
    /\ mSubs = <<>>
    /\ mErr = "none"
    /\ mEndedAt = "none"
    /\ mTeardown = "none"
    /\ mRaised = "none"
    /\ mCaller = "none"
    /\ mActive = 0
    /\ mTrace = <<>>

OtherInit ==
    /\ oPc = "idle"
    /\ oSources = {}
    /\ oTasks = {}

\* A data source is constructed with its MQTTTopic objects (the list that its
\* handlers() returns) and appended to MQTTController.data_sources before
\* connect().
AddMqttDataSource(declared) ==
    /\ mPc = "idle"
    /\ Len(mqtt_data_sources) < MaxMqttSources
    /\ LET s == Len(mqtt_data_sources) + 1
       IN /\ MQTTTopic_handlers' = InitAll(MQTTTopic_handlers, s, Len(declared))
          /\ mqtt_data_sources' =
                Append(mqtt_data_sources,
                       [d \in 1..Len(declared) |-> NewMQTTTopic(declared[d])])
    /\ UNCHANGED <<topics, tasks, taskState, mPc, mSession, mStreams, mSubs,
                   mErr, mEndedAt, mTeardown, mRaised, mCaller, mActive, mTrace>>
    /\ UNCHANGED <<hassVars, otherVars>>

\* Variant: connect() awaits the supervising task instead of scheduling it
MqttConnectAwaits_Await == TRUE

\* connect() schedules client_handler with asyncio.create_task and returns;
\* it does not await the task.
MqttConnectAwaits == FALSE

\* connect(): asyncio.create_task(self.client_handler())
MqttConnect ==
    /\ mPc = "idle"
    /\ mPc' = "loop"
    /\ mCaller' = IF MqttConnectAwaits THEN "waiting" ELSE "returned"
    /\ UNCHANGED <<mqtt_data_sources, MQTTTopic_handlers, topics, tasks, taskState,
                   mSession, mStreams, mSubs, mErr, mEndedAt, mTeardown, mRaised,
                   mActive, mTrace>>
    /\ UNCHANGED <<hassVars, otherVars>>

\* stack.push_async_callback(self.cancel_tasks, self.tasks): the arguments the
\* exit stack passes to the callback, and the parameters cancel_tasks takes
\* besides self.
PushedArgs == <<"self.tasks">>
CancelTasksParams == <<>>

\* cancel_tasks: every task of self.tasks that is not done is cancelled and
\* awaited, the CancelledError suppressed
cancel_tasks(tracked, state) ==
    [id \in DOMAIN state |->
        IF id \in {t.id : t \in tracked} /\ state[id] = "running"
        THEN "cancelled" ELSE state[id]]

\* The exit stack calls callback(*args) on every exit of the async with block;
\* a call with the wrong number of arguments raises TypeError.
CallbackRaises == Len(PushedArgs) # Len(CancelTasksParams)

\* Leaving the async with block of listen() with the error exc ("none" on a
\* normal return) at step `at`, the listener tasks being in `state`: the
\* contexts entered on the stack are left (the broker connection is closed)
\* and the exit callback is called; an error it raises replaces exc.
ExitListen(at, exc, tracked, state) ==
    /\ mActive' = mActive - 1
    /\ mErr' = exc
    /\ mEndedAt' = at
    /\ mTeardown' = IF CallbackRaises THEN "TypeError" ELSE "done"
    /\ taskState' = IF CallbackRaises THEN state ELSE cancel_tasks(tracked, state)
    /\ mRaised' = IF CallbackRaises THEN "TypeError" ELSE exc
    /\ mPc' = "sleep"

\* while True: await self.listen() -- entering the async with block,
\* pushing the callback and creating the Client
MqttListenStart ==
    /\ mPc = "loop"
    /\ mSession < MaxSessions
    /\ mSession' = mSession + 1
    /\ mPc' = "connecting"
    /\ mStreams' = <<>>
    /\ mSubs' = <<>>
    /\ mErr' = "none"
    /\ mEndedAt' = "none"
    /\ mTeardown' = "none"
    /\ mRaised' = "none"
    /\ mActive' = mActive + 1
    /\ mTrace' = <<"push_callback">>
    /\ UNCHANGED <<mqtt_data_sources, MQTTTopic_handlers, topics, tasks, taskState,
                   mCaller>>
    /\ UNCHANGED <<hassVars, otherVars>>

\* await stack.enter_async_context(client)
MqttClientConnected(outcome) ==
    /\ mPc = "connecting"
    /\ IF outcome = "ok"
       THEN /\ mPc' = "assemble"
            /\ mTrace' = Append(mTrace, "connect")
            /\ UNCHANGED <<taskState, mErr, mEndedAt, mTeardown, mRaised, mActive>>
       ELSE /\ ExitListen("connect", outcome, tasks, taskState)
            /\ mTrace' = mTrace \o <<"connect", "exit_callback">>
    /\ UNCHANGED <<mqtt_data_sources, MQTTTopic_handlers, topics, tasks, mSession,
                   mStreams, mSubs, mCaller>>
    /\ UNCHANGED <<hassVars, otherVars>>

\* All MQTTTopic objects that the data sources' handlers() return, in the
\* order the two loops of listen() visit them
RECURSIVE Declared(_)
Declared(sources) ==
    IF sources = <<>> THEN <<>>
    ELSE Declared(SubSeq(sources, 1, Len(sources) - 1)) \o sources[Len(sources)]

InTopics(keys, topic) == \E k \in 1..Len(keys) : keys[k] = topic

\* if ds_hl.topic in self.topics: topic.handlers.append(ds_hl.handlers)
\* -- both names denote the one class-level list, so the list is appended
\* to itself; else: self.topics[ds_hl.topic] = ds_hl
RECURSIVE Assemble(_, _, _)
Assemble(declared, keys, handlers) ==
    IF declared = <<>> THEN [topics |-> keys, handlers |-> handlers]
    ELSE LET ds_hl == Head(declared)
         IN IF InTopics(keys, ds_hl.topic)
            THEN Assemble(Tail(declared), keys, Append(handlers, TheList))
            ELSE Assemble(Tail(declared), Append(keys, ds_hl.topic), handlers)

MqttAssembleTopics ==
    /\ mPc = "assemble"
    /\ LET a == Assemble(Declared(mqtt_data_sources), topics, MQTTTopic_handlers)
       IN /\ topics' = a.topics
          /\ MQTTTopic_handlers' = a.handlers
    /\ mPc' = "streams"
    /\ mTrace' = Append(mTrace, "handlers")
    /\ UNCHANGED <<mqtt_data_sources, tasks, taskState, mSession, mStreams, mSubs,
                   mErr, mEndedAt, mTeardown, mRaised, mCaller, mActive>>
    /\ UNCHANGED <<hassVars, otherVars>>

\* The (topic, hl) pairs the loops at lines 190-196 visit, in order: every
\* topic of self.topics with every element of topic.handlers
Visits(keys, handlers) ==
    [k \in 1..(Len(keys) * Len(handlers)) |->
        [topic |-> keys[((k - 1) \div Len(handlers)) + 1],
         hl |-> handlers[((k - 1) % Len(handlers)) + 1]]]

\* Number of visits made before hl(messages) raises (all of them if none does)
RECURSIVE CallableVisits(_)
CallableVisits(visits) ==
    IF visits = <<>> \/ ~IsCallable(Head(visits).hl) THEN 0
    ELSE 1 + CallableVisits(Tail(visits))

\* for topic_string, topic in self.topics.items(): open the filtered stream,
\* then task = asyncio.create_task(hl(messages)); self.tasks.add(task)
MqttOpenStreams ==
    /\ mPc = "streams"
    /\ LET visits == Visits(topics, MQTTTopic_handlers)
           n == CallableVisits(visits)
           raised == n < Len(visits)
           first == Len(taskState)
           created == {[id |-> first + k, handler |-> visits[k].hl,
                        stream |-> visits[k].topic, session |-> mSession] : k \in 1..n}
           state == [id \in 1..(first + n) |->
                        IF id <= first THEN taskState[id] ELSE "running"]
           opened == IF Len(MQTTTopic_handlers) = 0 THEN Len(topics)
                     ELSE IF raised THEN (n \div Len(MQTTTopic_handlers)) + 1
                     ELSE Len(topics)
       IN /\ tasks' = tasks \cup created
          /\ mStreams' = SubSeq(topics, 1, opened)
          /\ IF raised
             THEN /\ ExitListen("streams", "TypeError", tasks', state)
                  /\ mTrace' = mTrace \o <<"streams_tasks", "exit_callback">>
             ELSE /\ taskState' = state
                  /\ mPc' = "subscribing"
                  /\ mTrace' = Append(mTrace, "streams_tasks")
                  /\ UNCHANGED <<mErr, mEndedAt, mTeardown, mRaised, mActive>>
    /\ UNCHANGED <<mqtt_data_sources, MQTTTopic_handlers, topics, mSession, mSubs,
                   mCaller>>
    /\ UNCHANGED <<hassVars, otherVars>>

\* all_topics: the MQTTTopic objects of self.topics, in order
AllTopics == [k \in 1..Len(topics) |-> NewMQTTTopic(topics[k])]

\* await client.subscribe(all_topics)
MqttSubscribe(outcome) ==
    /\ mPc = "subscribing"
    /\ mSubs' = Append(mSubs, AllTopics)
    /\ IF outcome = "ok"
       THEN /\ mPc' = "gathering"
            /\ mTrace' = mTrace \o <<"subscribe", "gather">>
            /\ UNCHANGED <<taskState, mErr, mEndedAt, mTeardown, mRaised, mActive>>
       ELSE /\ ExitListen("subscribe", outcome, tasks, taskState)
            /\ mTrace' = mTrace \o <<"subscribe", "exit_callback">>
    /\ UNCHANGED <<mqtt_data_sources, MQTTTopic_handlers, topics, tasks, mSession,
                   mStreams, mCaller>>
    /\ UNCHANGED <<hassVars, otherVars>>

\* await asyncio.gather(*self.tasks): returns when every task has finished,
\* raises the error of a task that failed (CancelledError for a cancelled one)
GatherOutcomes ==
    {IF taskState[t.id] = "cancelled" THEN "CancelledError" ELSE taskState[t.id] :
        t \in {u \in tasks : taskState[u.id] \notin {"running", "finished"}}}
    \cup (IF \A t \in tasks : taskState[t.id] = "finished" THEN {"none"} ELSE {})

MqttGather(outcome) ==
    /\ mPc = "gathering"
    /\ outcome \in GatherOutcomes
    /\ ExitListen("gather", outcome, tasks, taskState)
    /\ mTrace' = Append(mTrace, "exit_callback")
    /\ UNCHANGED <<mqtt_data_sources, MQTTTopic_handlers, topics, tasks, mSession,
                   mStreams, mSubs, mCaller>>
    /\ UNCHANGED <<hassVars, otherVars>>

\* except MqttError: log; finally: await asyncio.sleep(reconnect_interval);
\* any other error leaves the while loop and ends the client_handler task
CaughtByClientHandler(exc) == exc \in {"none", "MqttError"}

MqttSleepDone ==
    /\ mPc = "sleep"
    /\ mPc' = IF CaughtByClientHandler(mRaised) THEN "loop" ELSE "dead"
    /\ mCaller' = CallerAfter(mCaller, mPc')
    /\ UNCHANGED <<mqtt_data_sources, MQTTTopic_handlers, topics, tasks, taskState,
                   mSession, mStreams, mSubs, mErr, mEndedAt, mTeardown, mRaised,
                   mActive, mTrace>>
    /\ UNCHANGED <<hassVars, otherVars>>

\* A listener task hl(messages) returns
ListenerFinishes(id) ==
    /\ id \in DOMAIN taskState
    /\ taskState[id] = "running"
    /\ taskState' = [taskState EXCEPT ![id] = "finished"]
    /\ UNCHANGED <<mqtt_data_sources, MQTTTopic_handlers, topics, tasks, mPc, mSession,
                   mStreams, mSubs, mErr, mEndedAt, mTeardown, mRaised, mCaller,
                   mActive, mTrace>>
    /\ UNCHANGED <<hassVars, otherVars>>

\* A listener task hl(messages) raises err
ListenerFails(id, err) ==
    /\ id \in DOMAIN taskState
    /\ taskState[id] = "running"
    /\ taskState' = [taskState EXCEPT ![id] = err]
    /\ UNCHANGED <<mqtt_data_sources, MQTTTopic_handlers, topics, tasks, mPc, mSession,
                   mStreams, mSubs, mErr, mEndedAt, mTeardown, mRaised, mCaller,
                   mActive, mTrace>>
    /\ UNCHANGED <<hassVars, otherVars>>

MaxTasks == MaxSessions * MaxMqttSources * MaxDecls * MaxMqttSources * MaxDecls

MqttNext ==
    \/ \E declared \in SeqsUpTo(Topics, MaxDecls) \ {<<>>} : AddMqttDataSource(declared)
    \/ MqttConnect
    \/ MqttListenStart
    \/ \E outcome \in {"ok", "MqttError"} : MqttClientConnected(outcome)
    \/ MqttAssembleTopics
    \/ MqttOpenStreams
    \/ \E outcome \in {"ok", "MqttError", "TypeError"} : MqttSubscribe(outcome)
    \/ \E outcome \in {"none", "MqttError", "Error", "CancelledError"} : MqttGather(outcome)
    \/ MqttSleepDone
    \/ \E id \in 1..MaxTasks : ListenerFinishes(id)
    \/ \E id \in 1..MaxTasks, err \in {"MqttError", "Error"} : ListenerFails(id, err)

----------------------------------------------------------------------------
(* A second MQTTController object in the same process.  data_sources, topics
   and tasks are attributes of the class MQTTController, and handlers of the
   class MQTTTopic: the second object's self.data_sources, self.topics and
   self.tasks are the lists, dict and set of the first. *)

\* A data source appended to the second object's data_sources
OtherAddDataSource(declared) ==
    /\ oPc = "idle"
    /\ Len(mqtt_data_sources) < MaxMqttSources
    /\ LET s == Len(mqtt_data_sources) + 1
       IN /\ MQTTTopic_handlers' = InitAll(MQTTTopic_handlers, s, Len(declared))
          /\ mqtt_data_sources' =
                Append(mqtt_data_sources,
                       [d \in 1..Len(declared) |-> NewMQTTTopic(declared[d])])
          /\ oSources' = oSources \cup {s}
    /\ UNCHANGED <<topics, tasks, taskState, mPc, mSession, mStreams, mSubs,
                   mErr, mEndedAt, mTeardown, mRaised, mCaller, mActive, mTrace>>
    /\ UNCHANGED <<oPc, oTasks>>
    /\ UNCHANGED hassVars

\* connect() of the second object
OtherConnect ==
    /\ oPc = "idle"
    /\ oPc' = "loop"
    /\ UNCHANGED <<oSources, oTasks>>
    /\ UNCHANGED <<hassVars, mqttVars>>

\* Leaving the async with block of the second object's listen() with the
\* error exc, then the except and finally clauses of its client_handler
OtherExit(exc, tracked, state) ==
    /\ taskState' = IF CallbackRaises THEN state ELSE cancel_tasks(tracked, state)
    /\ oPc' = IF ~CallbackRaises /\ CaughtByClientHandler(exc) THEN "loop" ELSE "dead"

\* listen() of the second object up to the connection to the broker
OtherClientConnected(outcome) ==
    /\ oPc = "loop"
    /\ IF outcome = "ok"
       THEN oPc' = "assemble" /\ UNCHANGED taskState
       ELSE OtherExit(outcome, tasks, taskState)
    /\ UNCHANGED <<mqtt_data_sources, MQTTTopic_handlers, topics, tasks, mPc, mSession,
                   mStreams, mSubs, mErr, mEndedAt, mTeardown, mRaised, mCaller,
                   mActive, mTrace>>
    /\ UNCHANGED <<oSources, oTasks>>
    /\ UNCHANGED hassVars

\* for ds in self.data_sources: ... self.topics[ds_hl.topic] = ds_hl
OtherAssembleTopics ==
    /\ oPc = "assemble"
    /\ LET a == Assemble(Declared(mqtt_data_sources), topics, MQTTTopic_handlers)
       IN /\ topics' = a.topics
          /\ MQTTTopic_handlers' = a.handlers
    /\ oPc' = "streams"
    /\ UNCHANGED <<mqtt_data_sources, tasks, taskState, mPc, mSession, mStreams, mSubs,
                   mErr, mEndedAt, mTeardown, mRaised, mCaller, mActive, mTrace>>
    /\ UNCHANGED <<oSources, oTasks>>
    /\ UNCHANGED hassVars

\* for topic_string, topic in self.topics.items(): ... self.tasks.add(task)
\* The tasks are no task of a session of the first object (session 0).
OtherOpenStreams ==
    /\ oPc = "streams"
    /\ LET visits == Visits(topics, MQTTTopic_handlers)
           n == CallableVisits(visits)
           raised == n < Len(visits)
           first == Len(taskState)
           created == {[id |-> first + k, handler |-> visits[k].hl,
                        stream |-> visits[k].topic, session |-> 0] : k \in 1..n}
           state == [id \in 1..(first + n) |->
                        IF id <= first THEN taskState[id] ELSE "running"]
       IN /\ tasks' = tasks \cup created
          /\ oTasks' = oTasks \cup {t.id : t \in created}
          /\ IF raised
             THEN OtherExit("TypeError", tasks', state)
             ELSE taskState' = state /\ oPc' = "subscribing"
    /\ UNCHANGED <<mqtt_data_sources, MQTTTopic_handlers, topics, mPc, mSession,
                   mStreams, mSubs, mErr, mEndedAt, mTeardown, mRaised, mCaller,
                   mActive, mTrace>>
    /\ UNCHANGED oSources
    /\ UNCHANGED hassVars

\* await client.subscribe(all_topics) of the second object
OtherSubscribe(outcome) ==
    /\ oPc = "subscribing"
    /\ IF outcome = "ok"
       THEN oPc' = "gathering" /\ UNCHANGED taskState
       ELSE OtherExit(outcome, tasks, taskState)
    /\ UNCHANGED <<mqtt_data_sources, MQTTTopic_handlers, topics, tasks, mPc, mSession,
                   mStreams, mSubs, mErr, mEndedAt, mTeardown, mRaised, mCaller,
                   mActive, mTrace>>
    /\ UNCHANGED <<oSources, oTasks>>
    /\ UNCHANGED hassVars

\* await asyncio.gather(*self.tasks) of the second object: self.tasks is the
\* set of the class, with the tasks of both objects
OtherGather(outcome) ==
    /\ oPc = "gathering"
    /\ outcome \in GatherOutcomes
    /\ OtherExit(outcome, tasks, taskState)
    /\ UNCHANGED <<mqtt_data_sources, MQTTTopic_handlers, topics, tasks, mPc, mSession,
                   mStreams, mSubs, mErr, mEndedAt, mTeardown, mRaised, mCaller,
                   mActive, mTrace>>
    /\ UNCHANGED <<oSources, oTasks>>
    /\ UNCHANGED hassVars

----------------------------------------------------------------------------
(* Specifications *)

Init == HassInit /\ MqttInit /\ OtherInit

Next == HassNext \/ MqttNext

\* Both clients in one event loop
Spec == Init /\ [][Next]_vars

\* The websocket client alone
SpecHASS == Init /\ [][HassNext]_vars

\* The MQTT client alone
SpecMQTT == Init /\ [][MqttNext]_vars

MaxBothFrames == 1    \* frames per websocket session when both clients run
MaxBothSources == 1   \* MQTT data sources when both clients run

BothFrames ==
    {Garbage, [type |-> "auth_required"], [type |-> "auth_ok"],
     [type |-> "event", id |-> event_rq_id, event |-> [data |-> "d1"]]}

BothHassReceive(message) ==
    /\ Len(hIn) < MaxBothFrames
    /\ HassReceive(message)

BothAddMqttDataSource ==
    /\ Len(mqtt_data_sources) < MaxBothSources
    /\ AddMqttDataSource(<<"T">>)

BothNext ==
    \/ AddHassDataSource("ds1")
    \/ HassConnect
    \/ \E outcome \in ConnectOutcomes : HassConnectResult(outcome)
    \/ \E message \in BothFrames : BothHassReceive(message)
    \/ HassConnectionClosed
    \/ HassReconnectAfterClose
    \/ HassReconnectAfterConnectFailure
    \/ BothAddMqttDataSource
    \/ MqttConnect
    \/ MqttListenStart
    \/ \E outcome \in {"ok", "MqttError"} : MqttClientConnected(outcome)
    \/ MqttAssembleTopics
    \/ MqttOpenStreams
    \/ \E outcome \in {"ok", "MqttError", "TypeError"} : MqttSubscribe(outcome)
    \/ \E outcome \in {"none", "MqttError", "Error", "CancelledError"} : MqttGather(outcome)
    \/ MqttSleepDone
    \/ \E id \in 1..MaxTasks : ListenerFinishes(id)
    \/ \E id \in 1..MaxTasks, err \in {"MqttError", "Error"} : ListenerFails(id, err)

\* Both clients in one event loop, on a reduced set of inputs
SpecBoth == Init /\ [][BothNext]_vars

\* The most data-source invocations one frame can cause
MaxCalls == MaxRecords * Cardinality(Sources)

\* The websocket client with data sources whose callbacks may raise
HassFaultsNext ==
    \/ HassNext
    \/ \E message \in Frames, k \in 1..MaxCalls : HassCallbackFault(message, k)

SpecHASSFaults == Init /\ [][HassFaultsNext]_vars

\* Frames of the receive loop taken step by step, one per kind of effect
SeqFrames ==
    {Garbage, [type |-> "auth_required"], [type |-> "auth_ok"],
     [type |-> "event", id |-> event_rq_id, event |-> [data |-> "d1"]],
     [type |-> "result", id |-> bulk_rq_id, result |-> ListResult(<<"r1", "r2">>)],
     [type |-> "event", id |-> OtherId, event |-> [data |-> "d1"]]}

SeqNext ==
    \/ \E ds \in Sources : AddHassDataSource(ds)
    \/ HassConnect
    \/ HassConnectResult("ok")
    \/ \E message \in SeqFrames : HassTake(message)
    \/ \E i \in 1..MaxFrames : HassStep(i)
    \/ \E i \in 1..MaxFrames : HassSendFails(i)
    \/ HassReconnectAfterClose

\* The websocket client with the receive loop and on_message taken step by
\* step, from one await to the next
SpecSeq == Init /\ [][SeqNext]_vars

\* Two MQTTController objects, the first given data sources for topic "T",
\* the second for topic "U"; listener tasks run or return
TwoMqttNext ==
    \/ AddMqttDataSource(<<"T">>)
    \/ MqttConnect
    \/ MqttListenStart
    \/ \E outcome \in {"ok", "MqttError"} : MqttClientConnected(outcome)
    \/ MqttAssembleTopics
    \/ MqttOpenStreams
    \/ \E outcome \in {"ok", "MqttError", "TypeError"} : MqttSubscribe(outcome)
    \/ \E outcome \in {"none", "MqttError", "Error", "CancelledError"} : MqttGather(outcome)
    \/ MqttSleepDone
    \/ \E id \in 1..MaxTasks : ListenerFinishes(id)
    \/ OtherAddDataSource(<<"U">>)
    \/ OtherConnect
    \/ \E outcome \in {"ok", "MqttError"} : OtherClientConnected(outcome)
    \/ OtherAssembleTopics
    \/ OtherOpenStreams
    \/ \E outcome \in {"ok", "MqttError", "TypeError"} : OtherSubscribe(outcome)
    \/ \E outcome \in {"none", "MqttError", "Error", "CancelledError"} : OtherGather(outcome)

\* Two MQTTController objects in one process
SpecTwoMQTT == Init /\ [][TwoMqttNext]_vars

----------------------------------------------------------------------------
(* Properties *)

IsPrefix(s, t) == Len(s) <= Len(t) /\ s = SubSeq(t, 1, Len(s))

WaitingToReconnect == hPc \in {"sleepClosed", "sleepConnectFailed"}

TransportFailures ==
    {"ConnectionClosed", "WebSocketException", "gaierror", "ConnectionRefusedError"}

\* C1: a websocket session that ended by a transport close or by a connect
\* failure of any kind (closed connection, websocket error, DNS failure,
\* connection refused) is followed by the fixed delay and a new connection
\* attempt: the client is then waiting to reconnect, never stopped.
C1_TransportFailureRetried == hEnd \in TransportFailures => WaitingToReconnect

\* C2: an MQTT session whose body ended with a broker error (while
\* connecting, subscribing or listening) is followed by the delay and a new
\* call of listen(): the supervising loop has not terminated.
C2_BrokerErrorRetried == mErr = "MqttError" => mPc \in {"sleep", "loop"}

Handshake == <<AuthFrame, SubscribeEventsFrame, GetStatesFrame>>

AuthFramesSeen == SelectSeq(hIn, LAMBDA c : c \in {"auth_required", "auth_ok"})

\* C3: in a session that received auth_required and then auth_ok, each once,
\* the outbound frames are the auth frame with the configured token, the
\* subscribe_events request with the event id and the get_states request
\* with the bulk id, in this order and none twice (a prefix of them if the
\* connection closed while sending); the two reserved ids are distinct.
C3_Handshake ==
    /\ event_rq_id # bulk_rq_id
    /\ AuthFramesSeen = <<"auth_required", "auth_ok">> =>
            /\ IsPrefix(hOut, Handshake)
            /\ hPc = "open" => hOut = Handshake

C3_Witness ==
    /\ hPc = "open"
    /\ hIn = <<"auth_required", "auth_ok", "other">>
    /\ hOut = Handshake
    /\ hOut[1].access_token = auth_token

IsAuthFrame(message) == Has(message, "type") /\ message.type \in AuthTypes

\* C4: a frame (not an auth frame) whose id is the reserved event id and
\* that has event.data (here: data that is not the empty object) is delivered
\* with parse_incremental_update to every registered data source once, in
\* registration order; without event.data nothing is delivered.  Frames
\* without a type key, as in the example trace
\* {"id":1,"event":{"data":{...}}}, are covered.
C4_IncrementalDispatch ==
    \A k \in 1..Len(hMsg) :
        LET message == hMsg[k]
            present == Has(message, "event") /\ Has(message.event, "data")
        IN (~IsAuthFrame(message) /\ Has(message, "id") /\ message.id = event_rq_id) =>
              /\ (present /\ message.event.data # "{}") =>
                    hCalls = [i \in 1..Len(hass_data_sources) |->
                                Call(hass_data_sources[i], "parse_incremental_update",
                                     message.event.data)]
              /\ ~present => hCalls = <<>>

CallsTo(ds) == SelectSeq(hCalls, LAMBDA c : c.ds = ds)

\* C5: a frame (not an auth frame) whose id is the reserved bulk id and
\* whose result is a list of N records gives every registered data source
\* exactly N parse_bulk_update invocations, one per record in record order;
\* a null or missing result gives none.
C5_SnapshotDispatch ==
    \A k \in 1..Len(hMsg) :
        LET message == hMsg[k]
            items == IF Has(message, "result") /\ ~message.result.isNone
                     THEN message.result.items ELSE <<>>
        IN (~IsAuthFrame(message) /\ Has(message, "id") /\ message.id = bulk_rq_id) =>
              /\ Len(hCalls) = Len(items) * Len(hass_data_sources)
              /\ \A i \in 1..Len(hass_data_sources) :
                    CallsTo(hass_data_sources[i]) =
                        [j \in 1..Len(items) |->
                            Call(hass_data_sources[i], "parse_bulk_update", items[j])]

TwoSourcesSameTopic ==
    mqtt_data_sources = <<<<NewMQTTTopic("T")>>, <<NewMQTTTopic("T")>>>>

SessionTasks == {t \in tasks : t.session = mSession}

\* C6: with two data sources that each declare one handler for topic "T",
\* the session opens one filtered stream for "T", starts two listener tasks
\* over it, one per declared handler, and goes on to subscribe with one
\* entry for "T" and to await the tasks.
C6_TwoHandlersOneTopic ==
    (TwoSourcesSameTopic /\ mStreams # <<>>) =>
        /\ mStreams = <<"T">>
        /\ {t.handler : t \in SessionTasks} = {Handler(1, 1), Handler(2, 1)}
        /\ Cardinality(SessionTasks) = 2
        /\ \A t \in SessionTasks : t.stream = "T"
        /\ mPc = "subscribing" \/ mSubs = <<<<NewMQTTTopic("T")>>>>

\* C7: when the teardown of a session has completed, every tracked listener
\* task is in a terminal state (finished, failed or cancelled), so none is
\* still running when the next session starts.
C7_TeardownTerminatesTasks ==
    mTeardown # "none" => \A t \in tasks : taskState[t.id] # "running"

\* C8: a session that ended because a listener task failed, with a broker
\* error or any other error, is followed by the delay and a new call of
\* listen().
C8_ListenerFailureReconnects ==
    (mEndedAt = "gather" /\ mErr \in {"MqttError", "Error"}) => mPc \in {"sleep", "loop"}

\* C9: a frame that is not JSON, or that has a type but no id, fails the
\* session like a transport error: the client waits the delay and connects
\* again; the supervising task does not stop.
C9_MalformedFrameRetried ==
    hEnd \in {"JSONDecodeError", "KeyError"} => WaitingToReconnect

SentRequests ==
    SelectSeq(hOut, LAMBDA f : f.type \in {"subscribe_events", "get_states"})

\* C10: handling an auth_invalid frame sends nothing, invokes no data
\* source and leaves the session open and receiving (no close, no
\* reconnect); subscribe_events and get_states are sent in a session only
\* once an auth_ok frame has arrived.
C10_AuthInvalid ==
    /\ [](SentRequests # <<>> => \E k \in 1..Len(hIn) : hIn[k] = "auth_ok")
    /\ [][(hPc = "open" /\ hIn' = Append(hIn, "auth_invalid")) =>
            (hOut' = hOut /\ hCalls' = <<>> /\ hPc' = "open" /\ hEnd' = "none")]_vars

C10_Witness ==
    /\ hPc = "open"
    /\ hIn = <<"auth_required", "auth_invalid", "other">>
    /\ hOut = <<AuthFrame>>
    /\ hCalls = <<>>

\* A decoded frame that is no auth frame and whose id is absent or is neither
\* reserved id
IsUnclassified(message) ==
    /\ ~Has(message, "raw")
    /\ ~IsAuthFrame(message)
    /\ Has(message, "id") => message.id \notin {event_rq_id, bulk_rq_id}

\* C11: a frame that is not an auth frame is classified by its id alone; one
\* whose id is neither reserved id, or that has no id, is ignored: handling
\* it sends nothing, invokes no data source and leaves the session open and
\* receiving.
C11_UnknownFrameIgnored ==
    [][(hPc = "open" /\ hIn' = Append(hIn, "other") /\ IsUnclassified(hMsg'[1])) =>
            (hOut' = hOut /\ hCalls' = <<>> /\ hPc' = "open" /\ hEnd' = "none")]_vars

Started(pc) == pc # "idle"

\* C12: connect() of either client only schedules the supervising task and
\* returns, without waiting for a connection attempt; whatever happens to the
\* sessions afterwards (connect failure, lost connection, listener failure,
\* malformed frame), nothing is raised to the caller.
C12_ConnectFireAndForget ==
    /\ Started(hPc) => hCaller = "returned"
    /\ Started(mPc) => mCaller = "returned"

C12_Witness ==
    /\ hPc = "dead" /\ hEnd = "JSONDecodeError" /\ hCaller = "returned"
    /\ mPc = "dead" /\ mErr = "MqttError" /\ mCaller = "returned"

\* The (topic, handler) pairs the data sources declare, in registration order
RECURSIVE DeclaredPairs(_)
DeclaredPairs(sources) ==
    IF sources = <<>> THEN <<>>
    ELSE LET s == Len(sources)
         IN DeclaredPairs(SubSeq(sources, 1, s - 1)) \o
                [d \in 1..Len(sources[s]) |->
                    [topic |-> sources[s][d].topic, handler |-> Handler(s, d)]]

\* The handlers declared for one topic, in registration order
DeclaredFor(topic) ==
    LET pairs == SelectSeq(DeclaredPairs(mqtt_data_sources), LAMBDA p : p.topic = topic)
    IN [k \in 1..Len(pairs) |-> pairs[k].handler]

\* self.topics[topic].handlers: the attribute is looked up on the class, so
\* every MQTTTopic object gives the one list MQTTTopic.handlers
TopicHandlers(topic) == MQTTTopic_handlers

Assembled == mPc \in {"streams", "subscribing", "gathering"}

\* C13: once the topic map of a session is assembled, the handler list of
\* every topic in it holds the handlers that the data sources declared for
\* that topic, one per declaration in registration order, and nothing else:
\* no handler declared for another topic and no value that is no handler.
C13_TopicRegistration ==
    Assembled =>
        \A k \in 1..Len(topics) : TopicHandlers(topics[k]) = DeclaredFor(topics[k])

DistinctTopics == {p.topic : p \in {DeclaredPairs(mqtt_data_sources)[k] :
                                      k \in 1..Len(DeclaredPairs(mqtt_data_sources))}}

\* C14: in a session whose streams are open and whose tasks are created,
\* there is one filtered stream per distinct declared topic, as many listener
\* tasks as declared (topic, handler) pairs, every task runs a handler on the
\* stream of the topic that handler was declared for, and when the session
\* awaits its tasks one subscribe call was made, covering every distinct topic.
C14_PerSessionExecution ==
    mPc \in {"subscribing", "gathering"} =>
        /\ Len(mStreams) = Cardinality(DistinctTopics)
        /\ {mStreams[k] : k \in 1..Len(mStreams)} = DistinctTopics
        /\ Cardinality(SessionTasks) = Len(DeclaredPairs(mqtt_data_sources))
        /\ \A t \in SessionTasks :
              \E k \in 1..Len(DeclaredPairs(mqtt_data_sources)) :
                  /\ DeclaredPairs(mqtt_data_sources)[k].handler = t.handler
                  /\ DeclaredPairs(mqtt_data_sources)[k].topic = t.stream
        /\ mPc = "gathering" =>
              /\ Len(mSubs) = 1
              /\ {mSubs[1][k].topic : k \in 1..Len(mSubs[1])} = DistinctTopics

\* C15: each client has at most one connection attempt or open connection
\* at any time, and a new attempt starts only when none exists: for the
\* websocket client at connect() or after the delay that follows an ended
\* session, for the MQTT client at the top of the supervising loop.
C15_OneActiveSession ==
    /\ [](hActive <= 1 /\ mActive <= 1)
    /\ [][hActive' > hActive =>
            (hActive = 0 /\ hPc \in {"idle", "sleepClosed", "sleepConnectFailed"})]_vars
    /\ [][mActive' > mActive => (mActive = 0 /\ mPc = "loop")]_vars

C15_Witness ==
    /\ hRetried /\ hPc = "open" /\ hActive = 1
    /\ mPc = "gathering" /\ mActive = 1

\* C17: a step of one client leaves every variable of the other client
\* unchanged: a session failure or reconnect of the websocket client changes
\* nothing of the MQTT client (connection, session phase, topic map, listener
\* tasks), and a failure of the MQTT session changes nothing of the
\* websocket client.
C17_ClientsIndependent ==
    [][/\ hassVars' # hassVars => mqttVars' = mqttVars
       /\ mqttVars' # mqttVars => hassVars' = hassVars]_vars

C17_Witness ==
    /\ hRetried /\ hPc = "sleepClosed" /\ hEnd = "ConnectionClosed"
    /\ mPc = "gathering"
    /\ \E t \in tasks : taskState[t.id] = "running"

\* The data source that declared a handler
SourceOf(handler) == handler[2]

\* C16: with two MQTTController objects in one process, every listener task
\* runs a handler of a data source that was registered with the object whose
\* listen() created the task: a handler registered with one object never
\* spawns a listener task in the other.
C16_RegistriesInstanceOwned ==
    \A t \in tasks : t.id \in oTasks <=> SourceOf(t.handler) \in oSources

\* The effects that the dispatch rules give for the first n frames of the
\* session, frame after frame
RECURSIVE EffectsUpTo(_)
EffectsUpTo(n) ==
    IF n = 0 THEN <<>>
    ELSE EffectsUpTo(n - 1) \o Effects(on_message(hFrames[n], hass_data_sources))

\* C18: the frames of a session are handled one at a time in arrival order:
\* at most one on_message call is in progress, every send and data-source
\* invocation of the earlier frames was made before the latest frame was
\* taken, and the sends and invocations made so far are the concatenation of
\* the per-frame sequences in arrival order (all of it once the latest frame
\* is handled, the beginning of it while it is being handled).
C18_FramesOneAtATime ==
    /\ Len(hRun) <= 1
    /\ IsPrefix(hLog, EffectsUpTo(Len(hFrames)))
    /\ hFrames # <<>> => IsPrefix(EffectsUpTo(Len(hFrames) - 1), hLog)
    /\ (hPc = "open" /\ hRun = <<>>) => hLog = EffectsUpTo(Len(hFrames))

C18_Witness ==
    /\ hPc = "open" /\ hRun = <<>>
    /\ hass_data_sources = <<"ds1", "ds2">>
    /\ hIn = <<"auth_ok", "other", "other">>
    /\ Len(WhatOf(hLog, "send")) = 2
    /\ WhatOf(hLog, "call") =
          <<Call("ds1", "parse_incremental_update", "d1"),
            Call("ds2", "parse_incremental_update", "d1"),
            Call("ds1", "parse_bulk_update", "r1"),
            Call("ds2", "parse_bulk_update", "r1"),
            Call("ds1", "parse_bulk_update", "r2"),
            Call("ds2", "parse_bulk_update", "r2")>>

\* C19: after a data-source callback raised while a frame was dispatched,
\* the client has not stopped: it is still receiving on the session or it
\* is waiting the delay before it connects again.
C19_CallbackFaultSurvived ==
    hEnd = "DataSourceError" => (hPc = "open" \/ WaitingToReconnect)

\* The steps of the body of listen(), in the order of the code
ListenOrder ==
    <<"push_callback", "connect", "handlers", "streams_tasks", "subscribe", "gather">>

BodySteps == SelectSeq(mTrace, LAMBDA step : step # "exit_callback")

\* C20: the steps of a session happen in the order of listen() -- the
\* teardown callback is registered, then the broker connection is opened,
\* then the handlers are collected, then the streams are opened and the
\* tasks created, then the one subscribe call is made, then the tasks are
\* awaited -- and a session whose body failed at any step after the first
\* has run its teardown.
C20_ListenOrderAndTeardown ==
    /\ IsPrefix(BodySteps, ListenOrder)
    /\ (mEndedAt # "none" /\ mErr # "none") => mTeardown = "done"

====
